---- MODULE Spec2Model ----
(***************************************************************************)
(* google-sheet-sync: the change detector (ChangeDetector.detectChanges    *)
(* and its three phases) and the webhook host that fetches snapshots and   *)
(* feeds them to it (initialize, the /drive-notification handler,          *)
(* processChange).                                                         *)
(*                                                                         *)
(* JavaScript values are records [kind, text]: kind is the typeof-like tag *)
(* and text is String(value) as a sequence of one-character strings.       *)
(* Arrays are sequences; JavaScript's 0-based index i is TLA+'s i + 1.     *)
(* A Map is the sequence of its entries in insertion order.                *)
(***************************************************************************)
EXTENDS Integers, Sequences, FiniteSets

(***************************************************************************)
(* Cell values                                                             *)
(***************************************************************************)
Str(s) == [kind |-> "string", text |-> s]
Null == [kind |-> "null", text |-> <<"n", "u", "l", "l">>]
Undefined == [kind |-> "undefined", text |-> <<"u", "n", "d", "e", "f", "i", "n", "e", "d">>]
NumZero == [kind |-> "number", text |-> <<"0">>]
BoolFalse == [kind |-> "boolean", text |-> <<"f", "a", "l", "s", "e">>]
EmptyString == Str(<<>>)

\* String(value)
StringOf(value) == value.text

\* ToBoolean(value), as used by || and &&
Truthy(value) ==
  CASE value.kind = "string" -> value.text # <<>>
    [] value.kind = "number" -> value.text \notin {<<"0">>, <<"N", "a", "N">>}
    [] value.kind = "boolean" -> value.text = <<"t", "r", "u", "e">>
    [] OTHER -> FALSE

WhiteSpace == {" "}

RECURSIVE TrimStart(_)
TrimStart(s) ==
  IF s # <<>> /\ Head(s) \in WhiteSpace THEN TrimStart(Tail(s)) ELSE s

RECURSIVE TrimEnd(_)
TrimEnd(s) ==
  IF s # <<>> /\ s[Len(s)] \in WhiteSpace
  THEN TrimEnd(SubSeq(s, 1, Len(s) - 1))
  ELSE s

\* String.prototype.trim
Trim(s) == TrimEnd(TrimStart(s))

\* ChangeDetector.normalizeValue
normalizeValue(value) ==
  IF value = Null \/ value = Undefined THEN <<>> ELSE Trim(StringOf(value))

\* arr[i] for a JavaScript array arr and a 0-based index i
At(arr, i) == IF i >= 0 /\ i < Len(arr) THEN arr[i + 1] ELSE Undefined

Max2(a, b) == IF a >= b THEN a ELSE b

RECURSIVE MaxOf(_, _)
\* Math.max over the elements of seq and the number last
MaxOf(seq, last) ==
  IF seq = <<>> THEN last ELSE Max2(Head(seq), MaxOf(Tail(seq), last))

RECURSIVE Concat(_)
Concat(seqs) == IF seqs = <<>> THEN <<>> ELSE Head(seqs) \o Concat(Tail(seqs))

(***************************************************************************)
(* Address formatter                                                       *)
(***************************************************************************)
Letters ==
  <<"A", "B", "C", "D", "E", "F", "G", "H", "I", "J", "K", "L", "M",
    "N", "O", "P", "Q", "R", "S", "T", "U", "V", "W", "X", "Y", "Z">>

RECURSIVE columnToLetterLoop(_, _)
columnToLetterLoop(column, result) ==
  IF column > 0
  THEN columnToLetterLoop((column - 1) \div 26,
                          <<Letters[((column - 1) % 26) + 1]>> \o result)
  ELSE result

\* ChangeDetector.columnToLetter
columnToLetter(column) == columnToLetterLoop(column, <<>>)

Digits == <<"0", "1", "2", "3", "4", "5", "6", "7", "8", "9">>

RECURSIVE Decimal(_)
\* the decimal text of a natural number, as a template literal prints it
Decimal(n) ==
  IF n < 10 THEN <<Digits[n + 1]>>
  ELSE Decimal(n \div 10) \o <<Digits[(n % 10) + 1]>>

(***************************************************************************)
(* Maps in insertion order                                                 *)
(***************************************************************************)
MapHas(map, key) == \E j \in 1..Len(map) : map[j].key = key

MapGet(map, key) == map[CHOOSE j \in 1..Len(map) : map[j].key = key].idx

\* the callback of prevHeader.forEach / currHeader.forEach
ColMapStep(map, headerName, index) ==
  LET normalizedName == normalizeValue(headerName)
  IN IF ~MapHas(map, normalizedName)
     THEN Append(map, [key |-> normalizedName, idx |-> index])
     ELSE map

RECURSIVE ColMapFrom(_, _, _)
ColMapFrom(header, index, map) ==
  IF index >= Len(header) THEN map
  ELSE ColMapFrom(header, index + 1, ColMapStep(map, header[index + 1], index))

\* headerName -> column index, first occurrence only
ColMap(header) == ColMapFrom(header, 0, <<>>)

\* RowMapStep that lets a later row of the same key take the key over
RowMapStepLastWins(map, row, index) ==
  LET primaryKey == normalizeValue(At(row, 0))
  IN IF primaryKey = <<>> THEN map
     ELSE IF MapHas(map, primaryKey)
     THEN [j \in 1..Len(map) |->
             IF map[j].key = primaryKey
             THEN [key |-> primaryKey, idx |-> index] ELSE map[j]]
     ELSE Append(map, [key |-> primaryKey, idx |-> index])

\* the callback of prevDataRows.forEach / currDataRows.forEach
RowMapStep(map, row, index) ==
  LET primaryKey == normalizeValue(At(row, 0))
  IN IF primaryKey # <<>> /\ ~MapHas(map, primaryKey)
     THEN Append(map, [key |-> primaryKey, idx |-> index])
     ELSE map

RECURSIVE RowMapFrom(_, _, _)
RowMapFrom(rows, index, map) ==
  IF index >= Len(rows) THEN map
  ELSE RowMapFrom(rows, index + 1, RowMapStep(map, rows[index + 1], index))

\* primaryKey -> data-row index, first occurrence only, empty keys left out
RowMap(rows) == RowMapFrom(rows, 0, <<>>)

\* table.length > 0 ? table[0] : []
HeaderOf(table) == IF Len(table) > 0 THEN table[1] ELSE <<>>

\* table.length > 1 ? table.slice(1) : []
DataRowsOf(table) == IF Len(table) > 1 THEN Tail(table) ELSE <<>>

(***************************************************************************)
(* Phase 1: columns                                                        *)
(***************************************************************************)
\* table.slice(1).map(row => [row[colIdx] || '']).filter(([val]) => val !== '')
ColumnData(table, colIdx) ==
  IF Len(table) > 1
  THEN LET rows == Tail(table)
           mapped == [i \in 1..Len(rows) |->
                        <<IF Truthy(At(rows[i], colIdx))
                          THEN At(rows[i], colIdx) ELSE EmptyString>>]
       IN SelectSeq(mapped, LAMBDA cell : cell[1] # EmptyString)
  ELSE <<>>

\* InsertColumnEvent with the 0-based column index
InsertColumnEventZeroBased(previous, current, sheetName, currColIdx, now) ==
  LET maxRow == Max2(Len(previous), Len(current))
  IN [changeType |-> "INSERT_COLUMN",
      sheetName |-> sheetName,
      affectedRange |->
        [startRow |-> 1, endRow |-> maxRow,
         startColumn |-> currColIdx, endColumn |-> currColIdx,
         a1Notation |-> columnToLetter(currColIdx) \o <<"1", ":">>
                        \o columnToLetter(currColIdx) \o Decimal(maxRow)],
      columnIndex |-> currColIdx,
      insertedData |-> ColumnData(current, currColIdx),
      timestamp |-> now]

InsertColumnEvent(previous, current, sheetName, currColIdx, now) ==
  LET maxRow == Max2(Len(previous), Len(current))
  IN [changeType |-> "INSERT_COLUMN",
      sheetName |-> sheetName,
      affectedRange |->
        [startRow |-> 1, endRow |-> maxRow,
         startColumn |-> currColIdx + 1, endColumn |-> currColIdx + 1,
         a1Notation |-> columnToLetter(currColIdx + 1) \o <<"1", ":">>
                        \o columnToLetter(currColIdx + 1) \o Decimal(maxRow)],
      columnIndex |-> currColIdx + 1,
      insertedData |-> ColumnData(current, currColIdx),
      timestamp |-> now]

RemoveColumnEvent(previous, current, sheetName, prevColIdx, now) ==
  LET maxRow == Max2(Len(previous), Len(current))
  IN [changeType |-> "REMOVE_COLUMN",
      sheetName |-> sheetName,
      affectedRange |->
        [startRow |-> 1, endRow |-> maxRow,
         startColumn |-> prevColIdx + 1, endColumn |-> prevColIdx + 1,
         a1Notation |-> columnToLetter(prevColIdx + 1) \o <<"1", ":">>
                        \o columnToLetter(prevColIdx + 1) \o Decimal(maxRow)],
      columnIndex |-> prevColIdx + 1,
      deletedData |-> ColumnData(previous, prevColIdx),
      timestamp |-> now]

\* ChangeDetector.detectColumnChanges
detectColumnChanges(previous, current, sheetName, now) ==
  LET prevColMap == ColMap(HeaderOf(previous))
      currColMap == ColMap(HeaderOf(current))
      added == SelectSeq(currColMap, LAMBDA e : ~MapHas(prevColMap, e.key))
      gone == SelectSeq(prevColMap, LAMBDA e : ~MapHas(currColMap, e.key))
  IN [i \in 1..Len(added) |->
        InsertColumnEvent(previous, current, sheetName, added[i].idx, now)]
     \o
     [i \in 1..Len(gone) |->
        RemoveColumnEvent(previous, current, sheetName, gone[i].idx, now)]

(***************************************************************************)
(* Phase 2: rows                                                           *)
(***************************************************************************)
RowLengths(rows) == [i \in 1..Len(rows) |-> Len(rows[i])]

\* InsertRowEvent without the +1 for the header row
InsertRowEventNoHeaderOffset(prevDataRows, currDataRows, sheetName, currRowIdx, now) ==
  LET actualRowNum == currRowIdx + 1
      row == currDataRows[currRowIdx + 1]
      maxCol == MaxOf(RowLengths(prevDataRows) \o RowLengths(currDataRows), Len(row))
  IN [changeType |-> "INSERT_ROW",
      sheetName |-> sheetName,
      affectedRange |->
        [startRow |-> actualRowNum, endRow |-> actualRowNum,
         startColumn |-> 1, endColumn |-> maxCol,
         a1Notation |-> Decimal(actualRowNum) \o <<":">> \o Decimal(actualRowNum)],
      rowIndex |-> actualRowNum,
      insertedData |-> <<row>>,
      timestamp |-> now]

InsertRowEvent(prevDataRows, currDataRows, sheetName, currRowIdx, now) ==
  LET actualRowNum == currRowIdx + 2
      row == currDataRows[currRowIdx + 1]
      maxCol == MaxOf(RowLengths(prevDataRows) \o RowLengths(currDataRows), Len(row))
  IN [changeType |-> "INSERT_ROW",
      sheetName |-> sheetName,
      affectedRange |->
        [startRow |-> actualRowNum, endRow |-> actualRowNum,
         startColumn |-> 1, endColumn |-> maxCol,
         a1Notation |-> Decimal(actualRowNum) \o <<":">> \o Decimal(actualRowNum)],
      rowIndex |-> actualRowNum,
      insertedData |-> <<row>>,
      timestamp |-> now]

\* RemoveRowEvent without the +1 for the header row
RemoveRowEventNoHeaderOffset(prevDataRows, currDataRows, sheetName, prevRowIdx, now) ==
  LET actualRowNum == prevRowIdx + 1
      row == prevDataRows[prevRowIdx + 1]
      maxCol == MaxOf(RowLengths(prevDataRows) \o RowLengths(currDataRows), Len(row))
  IN [changeType |-> "REMOVE_ROW",
      sheetName |-> sheetName,
      affectedRange |->
        [startRow |-> actualRowNum, endRow |-> actualRowNum,
         startColumn |-> 1, endColumn |-> maxCol,
         a1Notation |-> Decimal(actualRowNum) \o <<":">> \o Decimal(actualRowNum)],
      rowIndex |-> actualRowNum,
      deletedData |-> <<row>>,
      timestamp |-> now]

RemoveRowEvent(prevDataRows, currDataRows, sheetName, prevRowIdx, now) ==
  LET actualRowNum == prevRowIdx + 2
      row == prevDataRows[prevRowIdx + 1]
      maxCol == MaxOf(RowLengths(prevDataRows) \o RowLengths(currDataRows), Len(row))
  IN [changeType |-> "REMOVE_ROW",
      sheetName |-> sheetName,
      affectedRange |->
        [startRow |-> actualRowNum, endRow |-> actualRowNum,
         startColumn |-> 1, endColumn |-> maxCol,
         a1Notation |-> Decimal(actualRowNum) \o <<":">> \o Decimal(actualRowNum)],
      rowIndex |-> actualRowNum,
      deletedData |-> <<row>>,
      timestamp |-> now]

\* ChangeDetector.detectRowChanges
detectRowChanges(previous, current, sheetName, now) ==
  LET prevDataRows == DataRowsOf(previous)
      currDataRows == DataRowsOf(current)
      prevRowMap == RowMap(prevDataRows)
      currRowMap == RowMap(currDataRows)
      added == SelectSeq(currRowMap, LAMBDA e : ~MapHas(prevRowMap, e.key))
      gone == SelectSeq(prevRowMap, LAMBDA e : ~MapHas(currRowMap, e.key))
  IN [i \in 1..Len(added) |->
        InsertRowEvent(prevDataRows, currDataRows, sheetName, added[i].idx, now)]
     \o
     [i \in 1..Len(gone) |->
        RemoveRowEvent(prevDataRows, currDataRows, sheetName, gone[i].idx, now)]

(***************************************************************************)
(* Phase 3: cell edits                                                     *)
(***************************************************************************)
\* ColumnMapping that pairs a column with the column at the same position
ColumnMappingByPosition(prevColMap, currColMap) ==
  LET both == SelectSeq(prevColMap, LAMBDA e : MapHas(currColMap, e.key))
  IN [i \in 1..Len(both) |->
        [key |-> both[i].key,
         prevIdx |-> both[i].idx,
         currIdx |-> both[i].idx]]

\* headerName -> {prevIdx, currIdx} for the headers of both maps, in the
\* order of prevColMap
ColumnMapping(prevColMap, currColMap) ==
  LET both == SelectSeq(prevColMap, LAMBDA e : MapHas(currColMap, e.key))
  IN [i \in 1..Len(both) |->
        [key |-> both[i].key,
         prevIdx |-> both[i].idx,
         currIdx |-> MapGet(currColMap, both[i].key)]]

\* row[idx] !== undefined ? row[idx] : ''
CellOrEmpty(row, idx) ==
  IF At(row, idx) # Undefined THEN At(row, idx) ELSE EmptyString

\* EditEvent carrying the normalized values instead of the raw ones
EditEventNormalized(sheetName, actualRowNum, currIdx, prevValue, currValue, now) ==
  LET cellAddress == columnToLetter(currIdx + 1) \o Decimal(actualRowNum)
  IN [changeType |-> "EDIT",
      sheetName |-> sheetName,
      affectedRange |->
        [startRow |-> actualRowNum, endRow |-> actualRowNum,
         startColumn |-> currIdx + 1, endColumn |-> currIdx + 1,
         a1Notation |-> cellAddress],
      cellAddress |-> cellAddress,
      oldValue |-> Str(normalizeValue(prevValue)),
      newValue |-> Str(normalizeValue(currValue)),
      timestamp |-> now]

EditEvent(sheetName, actualRowNum, currIdx, prevValue, currValue, now) ==
  LET cellAddress == columnToLetter(currIdx + 1) \o Decimal(actualRowNum)
  IN [changeType |-> "EDIT",
      sheetName |-> sheetName,
      affectedRange |->
        [startRow |-> actualRowNum, endRow |-> actualRowNum,
         startColumn |-> currIdx + 1, endColumn |-> currIdx + 1,
         a1Notation |-> cellAddress],
      cellAddress |-> cellAddress,
      oldValue |-> prevValue,
      newValue |-> currValue,
      timestamp |-> now]

\* CellDiffers with the current value left unnormalized
CellDiffersUnnormalized(prevRow, currRow, m) ==
  /\ ~(m.prevIdx = 0 /\ m.currIdx = 0)
  /\ normalizeValue(CellOrEmpty(prevRow, m.prevIdx))
       # StringOf(CellOrEmpty(currRow, m.currIdx))

\* the test that decides whether a mapped column of a matched row is reported
CellDiffers(prevRow, currRow, m) ==
  /\ ~(m.prevIdx = 0 /\ m.currIdx = 0)
  /\ normalizeValue(CellOrEmpty(prevRow, m.prevIdx))
       # normalizeValue(CellOrEmpty(currRow, m.currIdx))

\* RowEdits without the +1 for the header row
RowEditsNoHeaderOffset(prevRow, currRow, currRowIdx, columnMapping, sheetName, now) ==
  LET edited == SelectSeq(columnMapping, LAMBDA m : CellDiffers(prevRow, currRow, m))
  IN [i \in 1..Len(edited) |->
        EditEvent(sheetName, currRowIdx + 1, edited[i].currIdx,
                  CellOrEmpty(prevRow, edited[i].prevIdx),
                  CellOrEmpty(currRow, edited[i].currIdx), now)]

\* the inner loop of detectCellEdits: one matched row against columnMapping
RowEdits(prevRow, currRow, currRowIdx, columnMapping, sheetName, now) ==
  LET edited == SelectSeq(columnMapping, LAMBDA m : CellDiffers(prevRow, currRow, m))
  IN [i \in 1..Len(edited) |->
        EditEvent(sheetName, currRowIdx + 2, edited[i].currIdx,
                  CellOrEmpty(prevRow, edited[i].prevIdx),
                  CellOrEmpty(currRow, edited[i].currIdx), now)]

\* ChangeDetector.detectCellEdits
detectCellEdits(previous, current, sheetName, now) ==
  LET prevDataRows == DataRowsOf(previous)
      currDataRows == DataRowsOf(current)
      columnMapping == ColumnMapping(ColMap(HeaderOf(previous)),
                                     ColMap(HeaderOf(current)))
      prevRowMap == RowMap(prevDataRows)
      currRowMap == RowMap(currDataRows)
      matched == SelectSeq(prevRowMap, LAMBDA e : MapHas(currRowMap, e.key))
  IN Concat([i \in 1..Len(matched) |->
               RowEdits(prevDataRows[matched[i].idx + 1],
                        currDataRows[MapGet(currRowMap, matched[i].key) + 1],
                        MapGet(currRowMap, matched[i].key),
                        columnMapping, sheetName, now)])

(***************************************************************************)
(* detectChanges over snapshots                                            *)
(*                                                                         *)
(* A snapshot (SheetData) is a plain object: the sequence of its own       *)
(* properties [name, values] in Object.keys order.  A property that is not *)
(* its own is looked up on Object.prototype, whose members are functions.  *)
(***************************************************************************)
\* the members of Object.prototype a sheet may be named after, with the
\* length property of each
ObjectPrototype == [constructor |-> 1, toString |-> 0]

OwnKeys(data) == [i \in 1..Len(data) |-> data[i].name]

HasOwn(data, name) == \E i \in 1..Len(data) : data[i].name = name

\* data[name] || []
\* an array is [isArray |-> TRUE, length, rows]; a function inherited from
\* Object.prototype is [isArray |-> FALSE, length, rows |-> <<>>]
SheetOrEmpty(data, name) ==
  IF HasOwn(data, name)
  THEN LET values == data[CHOOSE i \in 1..Len(data) : data[i].name = name].values
       IN [isArray |-> TRUE, length |-> Len(values), rows |-> values]
  ELSE IF name \in DOMAIN ObjectPrototype
  THEN [isArray |-> FALSE, length |-> ObjectPrototype[name], rows |-> <<>>]
  ELSE [isArray |-> TRUE, length |-> 0, rows |-> <<>>]

RECURSIVE UniqueFrom(_, _)
UniqueFrom(names, seen) ==
  IF names = <<>> THEN seen
  ELSE UniqueFrom(Tail(names),
                  IF \E i \in 1..Len(seen) : seen[i] = Head(names)
                  THEN seen ELSE Append(seen, Head(names)))

\* new Set([...Object.keys(previousData), ...Object.keys(currentData)])
AllSheetNames(previousData, currentData) ==
  UniqueFrom(OwnKeys(previousData) \o OwnKeys(currentData), <<>>)

\* table.length > 0 ? table[0] : [] followed by header.forEach: a TypeError
\* when table[0] is undefined, which it is for a function of length > 0
HeaderThrows(table) == ~table.isArray /\ table.length > 0

\* DetectSheet with the cell edits reported before the columns and the rows
DetectSheetEditsFirst(previousData, currentData, sheetName, now) ==
  LET previous == SheetOrEmpty(previousData, sheetName)
      current == SheetOrEmpty(currentData, sheetName)
  IN IF previous.length = 0 /\ current.length = 0
     THEN [threw |-> FALSE, changes |-> <<>>]
     ELSE IF HeaderThrows(previous) \/ HeaderThrows(current)
     THEN [threw |-> TRUE, changes |-> <<>>]
     ELSE [threw |-> FALSE,
           changes |-> detectCellEdits(previous.rows, current.rows, sheetName, now)
                       \o detectColumnChanges(previous.rows, current.rows, sheetName, now)
                       \o detectRowChanges(previous.rows, current.rows, sheetName, now)]

\* the body of the loop of detectChanges for one sheet name
DetectSheet(previousData, currentData, sheetName, now) ==
  LET previous == SheetOrEmpty(previousData, sheetName)
      current == SheetOrEmpty(currentData, sheetName)
  IN IF previous.length = 0 /\ current.length = 0
     THEN [threw |-> FALSE, changes |-> <<>>]
     ELSE IF HeaderThrows(previous) \/ HeaderThrows(current)
     THEN [threw |-> TRUE, changes |-> <<>>]
     ELSE [threw |-> FALSE,
           changes |-> detectColumnChanges(previous.rows, current.rows, sheetName, now)
                       \o detectRowChanges(previous.rows, current.rows, sheetName, now)
                       \o detectCellEdits(previous.rows, current.rows, sheetName, now)]

RECURSIVE DetectFrom(_, _, _, _, _)
DetectFrom(names, previousData, currentData, now, changes) ==
  IF names = <<>> THEN [threw |-> FALSE, changes |-> changes]
  ELSE LET r == DetectSheet(previousData, currentData, Head(names), now)
       IN IF r.threw THEN [threw |-> TRUE, changes |-> <<>>]
          ELSE DetectFrom(Tail(names), previousData, currentData, now,
                          changes \o r.changes)

\* ChangeDetector.detectChanges: the returned list, or threw when a
\* TypeError leaves the call
detectChanges(previousData, currentData, now) ==
  DetectFrom(AllSheetNames(previousData, currentData),
             previousData, currentData, now, <<>>)

(***************************************************************************)
(* State                                                                   *)
(***************************************************************************)
VARIABLES
  previousSheetData,  \* index.ts: let previousSheetData
  isInitialized,      \* index.ts: let isInitialized
  tasks,              \* the async calls: task 0 is initialize(), the others
                      \* are the processChange() calls, in order of start
  running,            \* FALSE once process.exit has been called
  channelIdFromEnv,   \* whether process.env.CHANNEL_ID is set
  lastNotification,   \* what the handler did with the latest notification
  remoteVersion,      \* the spreadsheet at Google: its number of edits so far
  argPrevious,        \* a direct call of detectChanges: previousData
  argCurrent,         \* a direct call of detectChanges: currentData
  returned,           \* a direct call: [threw, changes] once it has returned
  called              \* whether the direct call has been made

hostVars == <<previousSheetData, isInitialized, tasks, running,
              channelIdFromEnv, lastNotification, remoteVersion>>

diffVars == <<argPrevious, argCurrent, returned, called>>

vars == <<previousSheetData, isInitialized, tasks, running, channelIdFromEnv,
          lastNotification, remoteVersion, argPrevious, argCurrent, returned,
          called>>

(***************************************************************************)
(* Bounds and input sets                                                   *)
(***************************************************************************)
MaxCols == 2
MaxDataRows == 2
MaxCycles == 2
MaxVersion == 2

a == Str(<<"a">>)
aPad == Str(<<"a", " ">>)
b == Str(<<"b">>)

\* the cell values tables are drawn from: two that differ only by padding,
\* one that is empty and one more
CellValues == {EmptyString, a, aPad, b}

Timestamps == {"2024-01-01T00:00:00.000Z"}

RowsOfWidth(values, maxCols) == UNION {[1..n -> values] : n \in 0..maxCols}

TablesOf(values, maxCols, maxRows) ==
  UNION {[1..n -> RowsOfWidth(values, maxCols)] : n \in 0..maxRows}

Sheet(name, values) == [name |-> name, values |-> values]

NotCalled == [threw |-> FALSE, changes |-> <<>>]

(***************************************************************************)
(* The webhook host                                                        *)
(***************************************************************************)
TaskIds == 0..MaxCycles
CycleIds == 1..MaxCycles

ConfigChannelId == "channel-1"

ResourceStates == {"sync", "update", "exists", "none"}
ChannelIds == {ConfigChannelId, "channel-2", "none"}

\* the spreadsheet at Google after v edits: one sheet, whose cell B2 holds v
RemoteAt(v) ==
  <<Sheet("Sheet1",
          << <<Str(<<"i", "d">>), Str(<<"v">>)>>,
             <<Str(<<"k">>), Str(Decimal(v))>> >>)>>

\* lastNotification before any notification has arrived
NoNotification ==
  [resourceState |-> "none", channelId |-> "none", outcome |-> "none"]

Handled(resourceState, channelId, outcome) ==
  [resourceState |-> resourceState, channelId |-> channelId, outcome |-> outcome]

IdleTask ==
  [pc |-> "idle", titles |-> <<>>, sheetData |-> <<>>, diffed |-> FALSE,
   changes |-> <<>>]

HostInit ==
  /\ previousSheetData = <<>>
  /\ isInitialized = FALSE
  /\ tasks = [t \in TaskIds |-> IdleTask]
  /\ running = TRUE
  /\ channelIdFromEnv \in BOOLEAN
  /\ lastNotification = NoNotification
  /\ remoteVersion = 0

\* the host as the direct calls of detectChanges see it: not started
HostOff ==
  /\ previousSheetData = <<>>
  /\ isInitialized = FALSE
  /\ tasks = [t \in TaskIds |-> IdleTask]
  /\ running = FALSE
  /\ channelIdFromEnv = FALSE
  /\ lastNotification = NoNotification
  /\ remoteVersion = 0

DiffOff ==
  /\ argPrevious = <<>>
  /\ argCurrent = <<>>
  /\ returned = NotCalled
  /\ called = TRUE

InFlight(t) == tasks[t].pc \in {"meta", "values", "fetched"}

\* app.listen's callback: initialize() up to its await
StartServer ==
  /\ running
  /\ tasks[0].pc = "idle"
  /\ tasks' = [tasks EXCEPT ![0].pc = "meta"]
  /\ UNCHANGED <<previousSheetData, isInitialized, running, channelIdFromEnv,
                 lastNotification, remoteVersion, diffVars>>

\* the channel-ID check of the handler: TRUE when the notification is dropped
ChannelMismatch(channelId) ==
  channelIdFromEnv /\ channelId # "none" /\ channelId # ConfigChannelId

\* the resourceState check of the handler
ValidState(resourceState) == resourceState \in {"sync", "update"}

\* app.post('/drive-notification'): the handler, and processChange() up to
\* its await when the handler calls it
Notification(resourceState, channelId) ==
  /\ running
  /\ tasks[0].pc # "idle"
  /\ IF ChannelMismatch(channelId)
     THEN /\ lastNotification' = Handled(resourceState, channelId, "mismatch")
          /\ UNCHANGED tasks
     ELSE IF ValidState(resourceState)
     THEN \E c \in CycleIds :
            /\ tasks[c].pc = "idle"
            /\ \A d \in CycleIds : d < c => tasks[d].pc # "idle"
            /\ tasks' = [tasks EXCEPT ![c].pc = "meta"]
            /\ lastNotification' = Handled(resourceState, channelId, "processed")
     ELSE /\ lastNotification' = Handled(resourceState, channelId, "ignored")
          /\ UNCHANGED tasks
  /\ UNCHANGED <<previousSheetData, isInitialized, running, channelIdFromEnv,
                 remoteVersion, diffVars>>

\* initialize() after its await: previousSheetData = ...; isInitialized = true
InitializeResume(data) ==
  /\ previousSheetData' = data
  /\ isInitialized' = TRUE
  /\ tasks' = [tasks EXCEPT ![0].pc = "done", ![0].sheetData = data]
  /\ UNCHANGED running

\* initialize()'s catch: process.exit(1)
InitializeCatch ==
  /\ running' = FALSE
  /\ tasks' = [tasks EXCEPT ![0].pc = "failed"]
  /\ UNCHANGED <<previousSheetData, isInitialized>>

\* ProcessChangeResume without the test of isInitialized
ProcessChangeResumeAlwaysDetects(c, currentData, now) ==
  LET r == detectChanges(previousSheetData, currentData, now)
  IN IF r.threw
     THEN /\ tasks' = [tasks EXCEPT ![c].pc = "threw",
                                    ![c].sheetData = currentData,
                                    ![c].diffed = TRUE]
          /\ UNCHANGED <<previousSheetData, isInitialized, running>>
     ELSE /\ previousSheetData' = currentData
          /\ isInitialized' = TRUE
          /\ tasks' = [tasks EXCEPT ![c].pc = "done",
                                    ![c].sheetData = currentData,
                                    ![c].diffed = TRUE,
                                    ![c].changes = r.changes]
          /\ UNCHANGED running

\* processChange() after its await, for the call c that fetched currentData
ProcessChangeResume(c, currentData, now) ==
  LET r == IF isInitialized
           THEN detectChanges(previousSheetData, currentData, now)
           ELSE NotCalled
  IN IF r.threw
     THEN \* the catch of processChange
          /\ tasks' = [tasks EXCEPT ![c].pc = "threw",
                                    ![c].sheetData = currentData,
                                    ![c].diffed = TRUE]
          /\ UNCHANGED <<previousSheetData, isInitialized, running>>
     ELSE /\ previousSheetData' = currentData
          /\ isInitialized' = TRUE
          /\ tasks' = [tasks EXCEPT ![c].pc = "done",
                                    ![c].sheetData = currentData,
                                    ![c].diffed = isInitialized,
                                    ![c].changes = r.changes]
          /\ UNCHANGED running

\* ProcessChangeCatch that goes on to the update of the previous state, with
\* the currentData that was never assigned
ProcessChangeCatchThenUpdate(c) ==
  /\ tasks' = [tasks EXCEPT ![c].pc = "failed"]
  /\ previousSheetData' = <<>>
  /\ isInitialized' = TRUE
  /\ UNCHANGED running

\* processChange()'s catch, reached from a failed fetch
ProcessChangeCatch(c) ==
  /\ tasks' = [tasks EXCEPT ![c].pc = "failed"]
  /\ UNCHANGED <<previousSheetData, isInitialized, running>>

\* getAllSheetData returns sheetData to the task that awaits it
FetchReturns(t, sheetData) ==
  IF t = 0
  THEN InitializeResume(sheetData)
  ELSE \E now \in Timestamps : ProcessChangeResume(t, sheetData, now)

\* getAllSheetData throws 'Failed to fetch sheet data'
FetchThrows(t) ==
  IF t = 0 THEN InitializeCatch ELSE ProcessChangeCatch(t)

\* getAllSheetData: spreadsheets.get answers with the sheets of the moment
MetaResolves(t) ==
  /\ running
  /\ tasks[t].pc = "meta"
  /\ LET titles == OwnKeys(RemoteAt(remoteVersion))
     IN tasks' = [tasks EXCEPT
                    ![t].pc = IF titles = <<>> THEN "fetched" ELSE "values",
                    ![t].titles = titles]
  /\ UNCHANGED <<previousSheetData, isInitialized, running, channelIdFromEnv,
                 lastNotification, remoteVersion, diffVars>>

\* getAllSheetData: spreadsheets.get fails
MetaRejects(t) ==
  /\ running
  /\ tasks[t].pc = "meta"
  /\ FetchThrows(t)
  /\ UNCHANGED <<channelIdFromEnv, lastNotification, remoteVersion, diffVars>>

\* getAllSheetData: values.get answers for the next sheet of the loop, with
\* the values of the moment; after the last sheet the answer is on its way
\* to the caller
ValuesResolves(t) ==
  /\ running
  /\ tasks[t].pc = "values"
  /\ LET done == Len(tasks[t].sheetData)
         sheetName == tasks[t].titles[done + 1]
         values == SheetOrEmpty(RemoteAt(remoteVersion), sheetName).rows
         sheetData == Append(tasks[t].sheetData, Sheet(sheetName, values))
     IN tasks' = [tasks EXCEPT
                    ![t].pc = IF done + 1 = Len(tasks[t].titles)
                              THEN "fetched" ELSE "values",
                    ![t].sheetData = sheetData]
  /\ UNCHANGED <<previousSheetData, isInitialized, running, channelIdFromEnv,
                 lastNotification, remoteVersion, diffVars>>

\* the caller of getAllSheetData resumes after its await with the answer;
\* the answers of calls that overlap arrive in any order
AwaitResumes(t) ==
  /\ running
  /\ tasks[t].pc = "fetched"
  /\ FetchReturns(t, tasks[t].sheetData)
  /\ UNCHANGED <<channelIdFromEnv, lastNotification, remoteVersion, diffVars>>

\* getAllSheetData: values.get fails
ValuesRejects(t) ==
  /\ running
  /\ tasks[t].pc = "values"
  /\ FetchThrows(t)
  /\ UNCHANGED <<channelIdFromEnv, lastNotification, remoteVersion, diffVars>>

\* somebody edits the spreadsheet
EditRemote ==
  /\ remoteVersion < MaxVersion
  /\ remoteVersion' = remoteVersion + 1
  /\ UNCHANGED <<previousSheetData, isInitialized, tasks, running,
                 channelIdFromEnv, lastNotification, diffVars>>

\* process.on('SIGINT'): process.exit(0)
Sigint ==
  /\ running
  /\ running' = FALSE
  /\ UNCHANGED <<previousSheetData, isInitialized, tasks, channelIdFromEnv,
                 lastNotification, remoteVersion, diffVars>>

Init == HostInit /\ DiffOff

Next ==
  \/ StartServer
  \/ \E resourceState \in ResourceStates, channelId \in ChannelIds :
       Notification(resourceState, channelId)
  \/ \E t \in TaskIds : MetaResolves(t)
  \/ \E t \in TaskIds : MetaRejects(t)
  \/ \E t \in TaskIds : ValuesResolves(t)
  \/ \E t \in TaskIds : ValuesRejects(t)
  \/ \E t \in TaskIds : AwaitResumes(t)
  \/ EditRemote
  \/ Sigint

Spec == Init /\ [][Next]_vars

(***************************************************************************)
(* The webhook host: properties                                            *)
(***************************************************************************)
\* a step of processChange call c that leaves it waiting for its fetch or in
\* the catch that a failed fetch leads to
StepBeforeFetchReturns(c) ==
  /\ tasks'[c] # tasks[c]
  /\ tasks'[c].pc \in {"meta", "values", "fetched", "failed"}

SerializedCyclesAsClaimed ==
  Cardinality({t \in TaskIds : InFlight(t)}) <= 1

(***************************************************************************)
(* Direct calls of detectChanges                                           *)
(***************************************************************************)
\* changeDetector.detectChanges(previousData, currentData)
DetectChanges ==
  /\ ~called
  /\ \E now \in Timestamps :
       returned' = detectChanges(argPrevious, argCurrent, now)
  /\ called' = TRUE
  /\ UNCHANGED <<argPrevious, argCurrent, hostVars>>

NextDiff == DetectChanges

\* every table, ragged ones included, of a header row and up to MaxDataRows
\* data rows
Tables == TablesOf(CellValues, MaxCols, MaxDataRows + 1)

(***************************************************************************)
(* What the properties say about tables, stated without the detector's     *)
(* maps                                                                    *)
(***************************************************************************)
\* the tables of a snapshot
TableOf(data, name) ==
  IF HasOwn(data, name)
  THEN data[CHOOSE i \in 1..Len(data) : data[i].name = name].values
  ELSE <<>>

\* the normalized primary key of table row r (r >= 2 is a data row)
KeyOf(table, r) == normalizeValue(At(table[r], 0))

\* the normalized header of column c (0-based) of a table with a header row
HeaderAt(table, c) == normalizeValue(At(table[1], c))

IsRagged(table) ==
  \E r1, r2 \in 1..Len(table) : Len(table[r1]) # Len(table[r2])

HasDuplicateHeader(table) ==
  /\ Len(table) > 0
  /\ \E c1, c2 \in 0..(Len(table[1]) - 1) :
       c1 < c2 /\ HeaderAt(table, c1) = HeaderAt(table, c2)

HasDuplicateKey(table) ==
  \E r1, r2 \in 2..Len(table) :
    r1 < r2 /\ KeyOf(table, r1) # <<>> /\ KeyOf(table, r1) = KeyOf(table, r2)

HasEmptyKey(table) == \E r \in 2..Len(table) : KeyOf(table, r) = <<>>

EventsOfType(changes, types) ==
  SelectSeq(changes, LAMBDA e : e.changeType \in types)

(***************************************************************************)
(* detectChanges(A, A)                                                     *)
(***************************************************************************)
\* one sheet: every table of up to MaxDataRows + 1 data rows over three
\* values, and every table of up to MaxDataRows rows in all over all values
\* and null; two sheets: every pair of small tables
IdemTables ==
  TablesOf({EmptyString, a, aPad}, MaxCols, MaxDataRows + 2)
    \cup TablesOf(CellValues \cup {Null}, MaxCols, MaxDataRows)

IdemSnapshots ==
  {<<Sheet("Sheet1", t)>> : t \in IdemTables}
    \cup {<<Sheet(n[1], t1), Sheet(n[2], t2)>> :
            n \in {<<"Sheet1", "Sheet2">>, <<"constructor", "Sheet1">>},
            t1 \in TablesOf({EmptyString, a}, MaxCols, MaxDataRows),
            t2 \in TablesOf({EmptyString, a}, MaxCols, MaxDataRows)}

InitIdem ==
  /\ HostOff
  /\ argPrevious \in IdemSnapshots
  /\ argCurrent = argPrevious
  /\ returned = NotCalled
  /\ called = FALSE

SpecIdem == InitIdem /\ [][NextDiff]_vars

SetCell(row, c, value) ==
  IF value = Undefined THEN SubSeq(row, 1, Len(row) - 1)
  ELSE IF c < Len(row) THEN [row EXCEPT ![c + 1] = value]
  ELSE Append(row, value)

CanSetCell(row, c, value) ==
  IF value = Undefined THEN c = Len(row) - 1
  ELSE c <= Len(row) /\ At(row, c) # value

\* the tables that differ from table in one cell of one data row
OneCellEdits(table) ==
  {[table EXCEPT ![r] = SetCell(table[r], c, v)] :
     <<r, c, v>> \in {x \in (2..Len(table)) \X (0..(MaxCols - 1))
                              \X (CellValues \cup {Undefined}) :
                        CanSetCell(table[x[1]], x[2], x[3])}}

InitEdit ==
  /\ HostOff
  /\ \E t \in Tables :
       /\ argPrevious = <<Sheet("Sheet1", t)>>
       /\ \E u \in OneCellEdits(t) : argCurrent = <<Sheet("Sheet1", u)>>
  /\ returned = NotCalled
  /\ called = FALSE

SpecEdit == InitEdit /\ [][NextDiff]_vars

ArgPreviousTable == TableOf(argPrevious, "Sheet1")
ArgCurrentTable == TableOf(argCurrent, "Sheet1")

Width(table) == MaxOf(RowLengths(table), 0)

\* the raw value of a cell, an absent cell counting as the empty string
RawCell(table, r, c) ==
  IF c < Len(table[r]) THEN table[r][c + 1] ELSE EmptyString

\* the cells (table row r, 0-based column c) whose raw value differs
DiffCells(p, q) ==
  {x \in (1..Len(p)) \X (0..(Max2(Width(p), Width(q)) - 1)) :
     RawCell(p, x[1], x[2]) # RawCell(q, x[1], x[2])}

OnlyCellChanged(p, q, r, c) ==
  /\ Len(p) = Len(q)
  /\ DiffCells(p, q) = {<<r, c>>}

\* table row r is the row its primary key is matched by: a data row with a
\* non-empty key that no earlier data row has
RowIsMatched(table, r) ==
  /\ r >= 2
  /\ KeyOf(table, r) # <<>>
  /\ \A r2 \in 2..(r - 1) : KeyOf(table, r2) # KeyOf(table, r)

\* column c is the column its header is matched by
ColumnIsMatched(table, c) ==
  /\ c < Len(table[1])
  /\ \A c2 \in 0..(c - 1) : HeaderAt(table, c2) # HeaderAt(table, c)

\* the only change is the cell (r, c) of a matched data row and a matched
\* non-key column
EditedCell(p, q, r, c) ==
  /\ OnlyCellChanged(p, q, r, c)
  /\ c >= 1
  /\ RowIsMatched(p, r) /\ RowIsMatched(q, r)
  /\ ColumnIsMatched(p, c) /\ ColumnIsMatched(q, c)

IsTheEdit(changes, p, q, r, c) ==
  /\ Len(changes) = 1
  /\ changes[1].changeType = "EDIT"
  /\ changes[1].oldValue = RawCell(p, r, c)
  /\ changes[1].newValue = RawCell(q, r, c)

\* C2 as claimed: one changed cell in a matched row and a matched non-key
\* column gives exactly one EDIT, with the raw old and new values, and no
\* other event
EditIsolationAsClaimed ==
  called =>
    \A r \in 2..Len(ArgPreviousTable), c \in 1..(MaxCols - 1) :
      EditedCell(ArgPreviousTable, ArgCurrentTable, r, c)
        => (~returned.threw
            /\ IsTheEdit(returned.changes, ArgPreviousTable, ArgCurrentTable, r, c))

\* C2, amended: the same, when the old and the new value of the cell do not
\* normalize to the same string
EditIsolationHolds ==
  called =>
    \A r \in 2..Len(ArgPreviousTable), c \in 1..(MaxCols - 1) :
      (/\ EditedCell(ArgPreviousTable, ArgCurrentTable, r, c)
       /\ normalizeValue(RawCell(ArgPreviousTable, r, c))
            # normalizeValue(RawCell(ArgCurrentTable, r, c)))
        => (~returned.threw
            /\ IsTheEdit(returned.changes, ArgPreviousTable, ArgCurrentTable, r, c))

\* detectChanges has returned for a table whose cell B3 went from "a " to
\* "b", in a table with two matched rows
EditIsolationWitness ==
  /\ called
  /\ Len(ArgPreviousTable) = 3
  /\ EditedCell(ArgPreviousTable, ArgCurrentTable, 3, 1)
  /\ RawCell(ArgPreviousTable, 3, 1) = aPad
  /\ RawCell(ArgCurrentTable, 3, 1) = b
  /\ Len(returned.changes) = 1

\* the only change is the primary-key cell of data row r
KeyCellChanged(p, q, r) == r >= 2 /\ OnlyCellChanged(p, q, r, 0)

\* no EDIT, one REMOVE_ROW for row r as it was and one INSERT_ROW for row r
\* as it is
IsRemoveAndInsert(changes, p, q, r) ==
  /\ EventsOfType(changes, {"EDIT"}) = <<>>
  /\ LET removed == EventsOfType(changes, {"REMOVE_ROW"})
         inserted == EventsOfType(changes, {"INSERT_ROW"})
     IN /\ Len(removed) = 1
        /\ removed[1].rowIndex = r
        /\ removed[1].deletedData = <<p[r]>>
        /\ Len(inserted) = 1
        /\ inserted[1].rowIndex = r
        /\ inserted[1].insertedData = <<q[r]>>

\* C3 as claimed: a change of the primary-key cell of one data row gives no
\* EDIT, one REMOVE_ROW under the old key and one INSERT_ROW under the new
KeyChangeAsClaimed ==
  called =>
    \A r \in 2..Len(ArgPreviousTable) :
      KeyCellChanged(ArgPreviousTable, ArgCurrentTable, r)
        => (~returned.threw
            /\ IsRemoveAndInsert(returned.changes, ArgPreviousTable, ArgCurrentTable, r))

\* the old and the new key of row r normalize to two different non-empty
\* strings, neither of which is the key of another data row
KeyReplacedByFreshKey(p, q, r) ==
  /\ KeyOf(p, r) # <<>>
  /\ KeyOf(q, r) # <<>>
  /\ KeyOf(p, r) # KeyOf(q, r)
  /\ \A r2 \in (2..Len(p)) \ {r} :
       KeyOf(p, r2) # KeyOf(p, r) /\ KeyOf(p, r2) # KeyOf(q, r)

\* C3, amended: the same, when the old and the new key normalize to two
\* different non-empty strings that no other data row has as its key
KeyChangeHolds ==
  called =>
    \A r \in 2..Len(ArgPreviousTable) :
      (/\ KeyCellChanged(ArgPreviousTable, ArgCurrentTable, r)
       /\ KeyReplacedByFreshKey(ArgPreviousTable, ArgCurrentTable, r))
        => (~returned.threw
            /\ IsRemoveAndInsert(returned.changes, ArgPreviousTable, ArgCurrentTable, r))

\* detectChanges has returned for a table of two data rows whose second
\* row's key went from "a " to "b", the other row having neither key
KeyChangeWitness ==
  /\ called
  /\ Len(ArgPreviousTable) = 3
  /\ KeyCellChanged(ArgPreviousTable, ArgCurrentTable, 3)
  /\ KeyReplacedByFreshKey(ArgPreviousTable, ArgCurrentTable, 3)
  /\ ArgPreviousTable[3][1] = aPad
  /\ Len(returned.changes) = 2

(***************************************************************************)
(* Any two snapshots                                                       *)
(***************************************************************************)
\* two tables that between them give events of every type
NarrowTable == << <<a>>, <<a>> >>
WideTable == << <<b, a>>, <<a, b>>, <<b, a>> >>

SheetNames == {"Sheet1", "Sheet2", "constructor"}

\* the snapshots of at most two sheets whose tables are empty, NarrowTable
\* or WideTable
PoolSnapshots ==
  LET pool == {<<>>, NarrowTable, WideTable}
  IN {<<>>}
       \cup {<<Sheet(n, t)>> : n \in SheetNames, t \in pool}
       \cup {<<Sheet(n1, t1), Sheet(n2, t2)>> :
               <<n1, n2>> \in {x \in SheetNames \X SheetNames : x[1] # x[2]},
               <<t1, t2>> \in pool \X pool}

\* one sheet: every pair of tables over two values, and every pair of
\* one-column tables over an empty, a plain and a padded value; several
\* sheets: every pair of pool snapshots
InitAny ==
  /\ HostOff
  /\ \/ \E t, u \in TablesOf({a, b}, MaxCols, MaxDataRows + 1) :
          /\ argPrevious = <<Sheet("Sheet1", t)>>
          /\ argCurrent = <<Sheet("Sheet1", u)>>
     \/ \E t, u \in TablesOf({EmptyString, a, aPad}, MaxCols - 1, MaxDataRows + 1) :
          /\ argPrevious = <<Sheet("Sheet1", t)>>
          /\ argCurrent = <<Sheet("Sheet1", u)>>
     \/ /\ argPrevious \in PoolSnapshots
        /\ argCurrent \in PoolSnapshots
  /\ returned = NotCalled
  /\ called = FALSE

SpecAny == InitAny /\ [][NextDiff]_vars

HasEvent(changes, type, sheetName, rowIndex) ==
  \E i \in 1..Len(changes) :
    /\ changes[i].changeType = type
    /\ changes[i].sheetName = sheetName
    /\ changes[i].rowIndex = rowIndex

\* C4 as claimed: every data row whose primary-key cell normalizes to the
\* empty string is reported as INSERT_ROW when it is in current and as REMOVE_ROW
\* when it is in previous
EmptyKeyFlappingAsClaimed ==
  (called /\ ~returned.threw) =>
    /\ \A s \in 1..Len(argCurrent) :
         \A r \in 2..Len(argCurrent[s].values) :
           (Len(argCurrent[s].values[r]) > 0 /\ KeyOf(argCurrent[s].values, r) = <<>>)
             => HasEvent(returned.changes, "INSERT_ROW", argCurrent[s].name, r)
    /\ \A s \in 1..Len(argPrevious) :
         \A r \in 2..Len(argPrevious[s].values) :
           (Len(argPrevious[s].values[r]) > 0 /\ KeyOf(argPrevious[s].values, r) = <<>>)
             => HasEvent(returned.changes, "REMOVE_ROW", argPrevious[s].name, r)

\* C7 as claimed: detectChanges returns a list for every pair of snapshots
TotalityAsClaimed == called => ~returned.threw

\* the sheet names of both snapshots, previous first, then those only in
\* current
UnionOrder(previousData, currentData) ==
  OwnKeys(previousData)
    \o SelectSeq(OwnKeys(currentData), LAMBDA n : ~HasOwn(previousData, n))

PositionIn(names, name) == CHOOSE i \in 1..Len(names) : names[i] = name

GroupOf(changeType) ==
  CASE changeType = "INSERT_COLUMN" -> 1
    [] changeType = "REMOVE_COLUMN" -> 2
    [] changeType = "INSERT_ROW" -> 3
    [] changeType = "REMOVE_ROW" -> 4
    [] changeType = "EDIT" -> 5

\* where an event belongs in the list: its sheet first, then its group
RankOf(names, event) ==
  <<PositionIn(names, event.sheetName), GroupOf(event.changeType)>>

RankOrdered(x, y) == x[1] < y[1] \/ (x[1] = y[1] /\ x[2] <= y[2])

\* C8: the events of a sheet are contiguous, the sheets come in union order
\* (previous's names, then the names only in current), and within a sheet
\* the order is INSERT_COLUMN, REMOVE_COLUMN, INSERT_ROW, REMOVE_ROW, EDIT
EmissionOrderHolds ==
  (called /\ ~returned.threw) =>
    LET names == UnionOrder(argPrevious, argCurrent)
        changes == returned.changes
    IN /\ \A i \in 1..Len(changes) :
            \E k \in 1..Len(names) : names[k] = changes[i].sheetName
       /\ \A i, j \in 1..Len(changes) :
            i < j => RankOrdered(RankOf(names, changes[i]), RankOf(names, changes[j]))

\* detectChanges has returned events for two sheets, the second of which is
\* only in current and is current's first; the first sheet's events include
\* a column, a row and a cell event
EmissionOrderWitness ==
  /\ called
  /\ ~returned.threw
  /\ Len(argPrevious) = 1
  /\ Len(argCurrent) = 2
  /\ argCurrent[2].name = argPrevious[1].name
  /\ LET mine == SelectSeq(returned.changes,
                           LAMBDA e : e.sheetName = argPrevious[1].name)
         other == SelectSeq(returned.changes,
                            LAMBDA e : e.sheetName = argCurrent[1].name)
     IN /\ EventsOfType(mine, {"INSERT_COLUMN", "REMOVE_COLUMN"}) # <<>>
        /\ EventsOfType(mine, {"INSERT_ROW", "REMOVE_ROW"}) # <<>>
        /\ EventsOfType(mine, {"EDIT"}) # <<>>
        /\ EventsOfType(other, {"INSERT_COLUMN"}) # <<>>

(***************************************************************************)
(* One column appended                                                     *)
(***************************************************************************)
RECURSIVE PadTo(_, _)
\* row with empty strings added up to n cells
PadTo(row, n) == IF Len(row) >= n THEN row ELSE PadTo(Append(row, EmptyString), n)

\* row with value in column n (0-based); Undefined leaves the row alone
WithCell(row, n, value) ==
  IF value = Undefined THEN row
  ELSE [PadTo(row, n + 1) EXCEPT ![n + 1] = value]

\* table with header appended to its header row and fill[r] put under it in
\* data row r
AppendColumn(table, header, fill) ==
  [r \in 1..Len(table) |->
     IF r = 1 THEN Append(table[1], header)
     ELSE WithCell(table[r], Len(table[1]), fill[r])]

\* the tables with a header row of less than MaxCols columns
Appendable == {t \in Tables : Len(t) >= 1 /\ Len(t[1]) < MaxCols}

InitColumn ==
  /\ HostOff
  /\ \E t \in Appendable, header \in CellValues :
       \E fill \in [2..Len(t) -> {Undefined, EmptyString, b}] :
         LET u == AppendColumn(t, header, fill)
         IN \/ /\ argPrevious = <<Sheet("Sheet1", t)>>
               /\ argCurrent = <<Sheet("Sheet1", u)>>
            \/ /\ argPrevious = <<Sheet("Sheet1", u)>>
               /\ argCurrent = <<Sheet("Sheet1", t)>>
  /\ returned = NotCalled
  /\ called = FALSE

SpecColumn == InitColumn /\ [][NextDiff]_vars

\* q is p with one column appended: p has a header row, q's header row is
\* p's and one more header, which normalizes to none of p's, and every cell
\* outside the new column is the same
ColumnAppended(p, q) ==
  /\ Len(p) >= 1
  /\ Len(q) = Len(p)
  /\ Len(q[1]) = Len(p[1]) + 1
  /\ SubSeq(q[1], 1, Len(p[1])) = p[1]
  /\ \A c \in 0..(Len(p[1]) - 1) : HeaderAt(p, c) # HeaderAt(q, Len(p[1]))
  /\ \A r \in 2..Len(p) :
       \A c \in (0..(Max2(Width(p), Width(q)) - 1)) \ {Len(p[1])} :
         RawCell(p, r, c) = RawCell(q, r, c)

\* C5: when current is previous with one column of a new header appended,
\* there is exactly one INSERT_COLUMN, at the new header's 1-indexed
\* position, and no REMOVE_COLUMN and no EDIT; the other way round there is
\* exactly one REMOVE_COLUMN, at that position, and no INSERT_COLUMN
ColumnSymmetryHolds ==
  called =>
    /\ ColumnAppended(ArgPreviousTable, ArgCurrentTable) =>
         /\ ~returned.threw
         /\ Len(EventsOfType(returned.changes, {"INSERT_COLUMN"})) = 1
         /\ EventsOfType(returned.changes, {"INSERT_COLUMN"})[1].columnIndex
              = Len(ArgCurrentTable[1])
         /\ EventsOfType(returned.changes, {"REMOVE_COLUMN", "EDIT"}) = <<>>
    /\ ColumnAppended(ArgCurrentTable, ArgPreviousTable) =>
         /\ ~returned.threw
         /\ Len(EventsOfType(returned.changes, {"REMOVE_COLUMN"})) = 1
         /\ EventsOfType(returned.changes, {"REMOVE_COLUMN"})[1].columnIndex
              = Len(ArgPreviousTable[1])
         /\ EventsOfType(returned.changes, {"INSERT_COLUMN"}) = <<>>

\* detectChanges has returned for a ragged table of two data rows and its
\* extension by a second column that holds a value
ColumnSymmetryWitness ==
  /\ called
  /\ ColumnAppended(ArgPreviousTable, ArgCurrentTable)
  /\ Len(ArgPreviousTable) = 3
  /\ Len(ArgPreviousTable[1]) = 1
  /\ IsRagged(ArgPreviousTable)
  /\ Len(returned.changes) = 1
  /\ returned.changes[1].insertedData # <<>>

(***************************************************************************)
(* One data row added                                                      *)
(***************************************************************************)
RowValues == {a, aPad, b}

InsertAt(table, k, row) ==
  SubSeq(table, 1, k - 1) \o <<row>> \o SubSeq(table, k, Len(table))

InitRow ==
  /\ HostOff
  /\ \E t \in TablesOf(RowValues, MaxCols, MaxDataRows + 1),
        row \in RowsOfWidth(RowValues, MaxCols) :
       /\ Len(t) >= 1
       /\ Len(row) >= 1
       /\ \E k \in 2..(Len(t) + 1) :
            LET u == InsertAt(t, k, row)
            IN \/ /\ argPrevious = <<Sheet("Sheet1", t)>>
                  /\ argCurrent = <<Sheet("Sheet1", u)>>
               \/ /\ argPrevious = <<Sheet("Sheet1", u)>>
                  /\ argCurrent = <<Sheet("Sheet1", t)>>
  /\ returned = NotCalled
  /\ called = FALSE

SpecRow == InitRow /\ [][NextDiff]_vars

\* q is p with one data row added as table row k: p has a header row, and
\* the new row's key is not empty and is the key of no data row of p
RowAdded(p, q, k) ==
  /\ Len(p) >= 1
  /\ Len(q) = Len(p) + 1
  /\ k \in 2..Len(q)
  /\ \A i \in 1..(k - 1) : q[i] = p[i]
  /\ \A i \in k..Len(p) : q[i + 1] = p[i]
  /\ KeyOf(q, k) # <<>>
  /\ \A r \in 2..Len(p) : KeyOf(p, r) # KeyOf(q, k)

\* C6: when current is previous with one data row of a new, non-empty key
\* added, there is exactly one INSERT_ROW, for that row, and no REMOVE_ROW
\* and no EDIT; the other way round there is exactly one REMOVE_ROW, for
\* that row, and no INSERT_ROW
RowSymmetryHolds ==
  called =>
    /\ \A k \in 2..Len(ArgCurrentTable) :
         RowAdded(ArgPreviousTable, ArgCurrentTable, k) =>
           /\ ~returned.threw
           /\ Len(EventsOfType(returned.changes, {"INSERT_ROW"})) = 1
           /\ EventsOfType(returned.changes, {"INSERT_ROW"})[1].rowIndex = k
           /\ EventsOfType(returned.changes, {"INSERT_ROW"})[1].insertedData
                = <<ArgCurrentTable[k]>>
           /\ EventsOfType(returned.changes, {"REMOVE_ROW", "EDIT"}) = <<>>
    /\ \A k \in 2..Len(ArgPreviousTable) :
         RowAdded(ArgCurrentTable, ArgPreviousTable, k) =>
           /\ ~returned.threw
           /\ Len(EventsOfType(returned.changes, {"REMOVE_ROW"})) = 1
           /\ EventsOfType(returned.changes, {"REMOVE_ROW"})[1].rowIndex = k
           /\ EventsOfType(returned.changes, {"REMOVE_ROW"})[1].deletedData
                = <<ArgPreviousTable[k]>>
           /\ EventsOfType(returned.changes, {"INSERT_ROW"}) = <<>>

\* detectChanges has returned for a table of two data rows with the same
\* key and that table with a row of another key put before them
RowSymmetryWitness ==
  /\ called
  /\ RowAdded(ArgPreviousTable, ArgCurrentTable, 2)
  /\ Len(ArgPreviousTable) = 3
  /\ HasDuplicateKey(ArgPreviousTable)
  /\ Len(returned.changes) = 1

(***************************************************************************)
(* Rows and non-key columns reordered                                      *)
(***************************************************************************)
\* the permutations of 1..n
Permutations(n) ==
  {f \in [1..n -> 1..n] : \A i, j \in 1..n : i # j => f[i] # f[j]}

RECURSIVE DropTrailingEmpty(_)
\* row without the empty strings at its end, as values.get returns a row
DropTrailingEmpty(row) ==
  IF row # <<>> /\ row[Len(row)] = EmptyString
  THEN DropTrailingEmpty(SubSeq(row, 1, Len(row) - 1))
  ELSE row

\* table with data row rp[i] of table as its data row i and column cp[j] of
\* table as its column j, a missing cell becoming an empty string
Reorder(table, rp, cp) ==
  [r \in 1..Len(table) |->
     LET src == IF r = 1 THEN table[1] ELSE table[rp[r - 1] + 1]
     IN [j \in 1..Len(table[1]) |->
           IF cp[j] <= Len(src) THEN src[cp[j]] ELSE EmptyString]]

\* table with the trailing empty strings of its data rows dropped
Trimmed(table) ==
  [r \in 1..Len(table) |->
     IF r = 1 THEN table[1] ELSE DropTrailingEmpty(table[r])]

DistinctHeaders(table) ==
  \A c1, c2 \in 0..(Len(table[1]) - 1) :
    c1 # c2 => HeaderAt(table, c1) # HeaderAt(table, c2)

DistinctNonEmptyKeys(table) ==
  /\ \A r \in 2..Len(table) : KeyOf(table, r) # <<>>
  /\ \A r1, r2 \in 2..Len(table) :
       r1 # r2 => KeyOf(table, r1) # KeyOf(table, r2)

\* no row is longer than the header row
WithinHeader(table) == \A r \in 1..Len(table) : Len(table[r]) <= Len(table[1])

\* the tables of up to MaxCols + 1 columns and MaxDataRows data rows with a
\* header row, distinct headers and distinct non-empty keys, ragged rows
\* included
KeyedTables ==
  {t \in TablesOf({EmptyString, a, b}, MaxCols + 1, MaxDataRows + 1) :
     /\ Len(t) >= 1
     /\ WithinHeader(t)
     /\ DistinctHeaders(t)
     /\ DistinctNonEmptyKeys(t)}

InitReorder ==
  /\ HostOff
  /\ \E t \in KeyedTables :
       \E rp \in Permutations(Len(t) - 1),
          cp \in {f \in Permutations(Len(t[1])) : Len(t[1]) > 0 => f[1] = 1} :
         /\ argPrevious = <<Sheet("Sheet1", t)>>
         /\ \/ argCurrent = <<Sheet("Sheet1", Reorder(t, rp, cp))>>
            \/ argCurrent = <<Sheet("Sheet1", Trimmed(Reorder(t, rp, cp)))>>
  /\ returned = NotCalled
  /\ called = FALSE

SpecReorder == InitReorder /\ [][NextDiff]_vars

\* q is p with its data rows reordered by rp and its columns by cp, a
\* missing cell counting as an empty string
IsReorderOf(p, q, rp, cp) ==
  /\ Len(q) = Len(p)
  /\ Len(q[1]) = Len(p[1])
  /\ \A r \in 1..Len(p), j \in 1..Len(p[1]) :
       RawCell(q, r, j - 1)
         = RawCell(p, IF r = 1 THEN 1 ELSE rp[r - 1] + 1, cp[j] - 1)

\* both tables have distinct headers and distinct non-empty keys, and
\* current is previous with data rows and non-key columns reordered
Repositioned(p, q) ==
  /\ Len(p) >= 1 /\ Len(q) >= 1
  /\ WithinHeader(p) /\ WithinHeader(q)
  /\ DistinctHeaders(p) /\ DistinctHeaders(q)
  /\ DistinctNonEmptyKeys(p) /\ DistinctNonEmptyKeys(q)
  /\ \E rp \in Permutations(Len(p) - 1),
        cp \in {f \in Permutations(Len(p[1])) : Len(p[1]) > 0 => f[1] = 1} :
       IsReorderOf(p, q, rp, cp)

\* C11: position independence: when both tables have pairwise distinct
\* normalized headers and pairwise distinct non-empty normalized keys and
\* current is previous with its data rows and its non-key columns
\* reordered, detectChanges returns the empty list
PositionIndependenceHolds ==
  (called /\ Repositioned(ArgPreviousTable, ArgCurrentTable))
    => (~returned.threw /\ returned.changes = <<>>)

\* detectChanges has returned for a table of three columns and two data
\* rows whose data rows and whose non-key columns have both changed places,
\* the two non-key cells of the first row holding different values
PositionIndependenceWitness ==
  /\ called
  /\ Repositioned(ArgPreviousTable, ArgCurrentTable)
  /\ Len(ArgPreviousTable) = 3
  /\ Len(ArgPreviousTable[1]) = 3
  /\ KeyOf(ArgCurrentTable, 2) = KeyOf(ArgPreviousTable, 3)
  /\ HeaderAt(ArgCurrentTable, 1) = HeaderAt(ArgPreviousTable, 2)
  /\ normalizeValue(RawCell(ArgPreviousTable, 2, 1))
       # normalizeValue(RawCell(ArgPreviousTable, 2, 2))

(***************************************************************************)
(* The payload of column events                                            *)
(***************************************************************************)
\* what a cell of an appended column may hold: nothing, strings, the number
\* 0 and the boolean false
PayloadValues == {Undefined, EmptyString, a, aPad, NumZero, BoolFalse}

\* the tables over two values with a header row of less than MaxCols columns
PayloadTables ==
  {t \in TablesOf({a, b}, MaxCols - 1, MaxDataRows + 1) : Len(t) >= 1}

InitPayload ==
  /\ HostOff
  /\ \E t \in PayloadTables, header \in {a, b} :
       \E fill \in [2..Len(t) -> PayloadValues] :
         LET u == AppendColumn(t, header, fill)
         IN \/ /\ argPrevious = <<Sheet("Sheet1", t)>>
               /\ argCurrent = <<Sheet("Sheet1", u)>>
            \/ /\ argPrevious = <<Sheet("Sheet1", u)>>
               /\ argCurrent = <<Sheet("Sheet1", t)>>
  /\ returned = NotCalled
  /\ called = FALSE

SpecPayload == InitPayload /\ [][NextDiff]_vars

\* the cells of column colIdx (0-based) in the data rows of table, in row
\* order, without the cells that are missing or hold the empty string
KeptCells(table, colIdx) ==
  LET rows == DataRowsOf(table)
      cells == [i \in 1..Len(rows) |-> <<At(rows[i], colIdx)>>]
  IN SelectSeq(cells, LAMBDA cell : cell[1] \notin {Undefined, EmptyString})

\* C12 as claimed: the insertedData of an INSERT_COLUMN event is the column's
\* raw values in the data rows of current, in row order, leaving out exactly
\* the cells that are missing or hold the empty string, 0 and false being
\* kept; the deletedData of a REMOVE_COLUMN event likewise from previous
ColumnPayloadAsClaimed ==
  (called /\ ~returned.threw) =>
    \A i \in 1..Len(returned.changes) :
      LET e == returned.changes[i]
      IN /\ e.changeType = "INSERT_COLUMN" =>
              e.insertedData
                = KeptCells(TableOf(argCurrent, e.sheetName), e.columnIndex - 1)
         /\ e.changeType = "REMOVE_COLUMN" =>
              e.deletedData
                = KeptCells(TableOf(argPrevious, e.sheetName), e.columnIndex - 1)

(***************************************************************************)
(* Duplicates                                                              *)
(***************************************************************************)
\* table row r is a data row whose key an earlier data row has
LaterDuplicateRow(table, r) ==
  /\ r \in 2..Len(table)
  /\ \E r2 \in 2..(r - 1) : KeyOf(table, r2) = KeyOf(table, r)

\* column c (0-based) has a header that an earlier column has
LaterDuplicateColumn(table, c) ==
  /\ Len(table) >= 1
  /\ c \in 0..(Len(table[1]) - 1)
  /\ \E c2 \in 0..(c - 1) : HeaderAt(table, c2) = HeaderAt(table, c)

\* the row and the column an event is about are not later duplicates in the
\* table its coordinates are those of
AboutFirstOccurrence(e, previous, current) ==
  CASE e.changeType = "INSERT_ROW" -> ~LaterDuplicateRow(current, e.rowIndex)
    [] e.changeType = "REMOVE_ROW" -> ~LaterDuplicateRow(previous, e.rowIndex)
    [] e.changeType = "INSERT_COLUMN" ->
         ~LaterDuplicateColumn(current, e.columnIndex - 1)
    [] e.changeType = "REMOVE_COLUMN" ->
         ~LaterDuplicateColumn(previous, e.columnIndex - 1)
    [] e.changeType = "EDIT" ->
         /\ ~LaterDuplicateRow(current, e.affectedRange.startRow)
         /\ ~LaterDuplicateColumn(current, e.affectedRange.startColumn - 1)

\* C13: first occurrence wins: no event is about a data row whose key an
\* earlier data row of the same table has, nor about a column whose header
\* an earlier column of the same header row has
FirstOccurrenceHolds ==
  (called /\ ~returned.threw) =>
    \A i \in 1..Len(returned.changes) :
      LET e == returned.changes[i]
      IN AboutFirstOccurrence(e, TableOf(argPrevious, e.sheetName),
                              TableOf(argCurrent, e.sheetName))

\* detectChanges has returned a row, a column and a cell event for a previous
\* table with a duplicate header and a current table with a duplicate key
FirstOccurrenceWitness ==
  /\ called
  /\ ~returned.threw
  /\ Len(argPrevious) = 1 /\ Len(argCurrent) = 1
  /\ HasDuplicateKey(ArgCurrentTable)
  /\ HasDuplicateHeader(ArgPreviousTable)
  /\ EventsOfType(returned.changes, {"REMOVE_ROW"}) # <<>>
  /\ EventsOfType(returned.changes, {"INSERT_COLUMN"}) # <<>>
  /\ EventsOfType(returned.changes, {"EDIT"}) # <<>>

(***************************************************************************)
(* Coordinates                                                             *)
(***************************************************************************)
\* table has a data row with this key / a header-row column with this header
HasKey(table, key) == \E r \in 2..Len(table) : KeyOf(table, r) = key

HasHeader(table, header) ==
  /\ Len(table) >= 1
  /\ \E c \in 0..(Len(table[1]) - 1) : HeaderAt(table, c) = header

\* the range of an event is row r alone
IsRowRange(e, r) == e.affectedRange.startRow = r /\ e.affectedRange.endRow = r

\* the range of an event is within column c (1-indexed) alone
IsColumnRange(e, c) ==
  e.affectedRange.startColumn = c /\ e.affectedRange.endColumn = c

\* the event's rowIndex is the number, counted from 1 with the header row as
\* row 1, of a data row of table that the event carries as data and whose
\* key the other table lacks
RowEventAt(e, table, other, data) ==
  /\ e.rowIndex \in 2..Len(table)
  /\ data = <<table[e.rowIndex]>>
  /\ KeyOf(table, e.rowIndex) # <<>>
  /\ ~HasKey(other, KeyOf(table, e.rowIndex))
  /\ IsRowRange(e, e.rowIndex)

\* the event's columnIndex is the number, counted from 1, of a column of
\* table's header row whose header the other table lacks
ColumnEventAt(e, table, other) ==
  /\ Len(table) >= 1
  /\ e.columnIndex \in 1..Len(table[1])
  /\ ~HasHeader(other, HeaderAt(table, e.columnIndex - 1))
  /\ IsColumnRange(e, e.columnIndex)
  /\ e.affectedRange.startRow = 1

\* the event's range is one cell of a data row of current, the cell's column
\* being within the header row, and the event carries what the cell holds
EditEventAt(e, previous, current) ==
  LET r == e.affectedRange.startRow
      c == e.affectedRange.startColumn
  IN /\ IsRowRange(e, r) /\ IsColumnRange(e, c)
     /\ r \in 2..Len(current)
     /\ c \in 1..Len(current[1])
     /\ e.newValue = RawCell(current, r, c - 1)
     /\ HasKey(previous, KeyOf(current, r))
     /\ HasHeader(previous, HeaderAt(current, c - 1))
     /\ e.cellAddress = <<Letters[c]>> \o Decimal(r)
     /\ e.affectedRange.a1Notation = e.cellAddress

CoordinatesOf(e, previous, current) ==
  CASE e.changeType = "INSERT_ROW" -> RowEventAt(e, current, previous, e.insertedData)
    [] e.changeType = "REMOVE_ROW" -> RowEventAt(e, previous, current, e.deletedData)
    [] e.changeType = "INSERT_COLUMN" -> ColumnEventAt(e, current, previous)
    [] e.changeType = "REMOVE_COLUMN" -> ColumnEventAt(e, previous, current)
    [] e.changeType = "EDIT" -> EditEventAt(e, previous, current)

\* C14: coordinates count from 1, the header row being row 1: the rowIndex
\* of INSERT_ROW (REMOVE_ROW) is the data-row index in current (previous)
\* plus 2, the columnIndex of INSERT_COLUMN (REMOVE_COLUMN) is the header
\* index in current (previous) plus 1, and the range of an EDIT is the one
\* cell at current's data-row index plus 2 and column index plus 1; no row
\* index is below 2 and no column index below 1
CoordinatesHold ==
  (called /\ ~returned.threw) =>
    \A i \in 1..Len(returned.changes) :
      LET e == returned.changes[i]
      IN CoordinatesOf(e, TableOf(argPrevious, e.sheetName),
                       TableOf(argCurrent, e.sheetName))

\* detectChanges has returned, for one sheet, an INSERT_ROW for row 3, a
\* REMOVE_ROW for row 2, an INSERT_COLUMN for column 2 and an EDIT of a cell
\* of column 2
CoordinatesWitness ==
  /\ called
  /\ ~returned.threw
  /\ \E i, j, k, l \in 1..Len(returned.changes) :
       /\ returned.changes[i].changeType = "INSERT_ROW"
       /\ returned.changes[i].rowIndex = 3
       /\ returned.changes[j].changeType = "REMOVE_ROW"
       /\ returned.changes[j].rowIndex = 2
       /\ returned.changes[k].changeType = "INSERT_COLUMN"
       /\ returned.changes[k].columnIndex = 2
       /\ returned.changes[l].changeType = "EDIT"
       /\ returned.changes[l].affectedRange.startColumn = 2

(***************************************************************************)
(* The webhook host: the channel check, the order of snapshots, and what   *)
(* isInitialized stands for                                                *)
(***************************************************************************)
\* C15 as claimed: with CHANNEL_ID set, the handler starts processChange
\* only for a notification whose x-goog-channel-id is config.channelId; a
\* notification with another channel ID or with none is ignored
ChannelCheckAsClaimed ==
  (channelIdFromEnv /\ lastNotification.outcome = "processed")
    => lastNotification.channelId = ConfigChannelId

\* how many edits the spreadsheet had seen when a snapshot was fetched: -1
\* for the placeholder {} that no fetch returned
VersionOf(data) ==
  IF data = <<>> THEN -1
  ELSE CHOOSE v \in 0..MaxVersion : RemoteAt(v) = data

\* the calls whose fetch returned and that replaced previousSheetData
Replaced == {t \in TaskIds : tasks[t].pc = "done"}

\* C16 as claimed: previousSheetData is never replaced by a snapshot fetched
\* earlier than the one it holds, so once every call has finished it holds
\* the most recently fetched snapshot
NoStaleOverwriteAsClaimed ==
  (Replaced # {} /\ \A t \in TaskIds : ~InFlight(t)) =>
    \A t \in Replaced :
      VersionOf(previousSheetData) >= VersionOf(tasks[t].sheetData)

\* previousSheetData is what a call of getAllSheetData returned to a caller
\* that went on to store it
HoldsFetchedSnapshot ==
  /\ previousSheetData # <<>>
  /\ \E t \in Replaced : tasks[t].sheetData = previousSheetData

\* a step in which a processChange call calls detectChanges
CallsDetectChanges == \E c \in CycleIds : ~tasks[c].diffed /\ tasks'[c].diffed

\* C17: when isInitialized is true previousSheetData is a snapshot that an
\* earlier successful getAllSheetData returned, never the initial
\* placeholder; detectChanges is called only when isInitialized is true;
\* isInitialized never goes back from true to false
DiffAgainstFetchedHolds ==
  /\ [](isInitialized => HoldsFetchedSnapshot)
  /\ [][/\ CallsDetectChanges => isInitialized
        /\ isInitialized => isInitialized']_vars

\* one processChange call has resumed before the host was initialized and
\* skipped detectChanges, and a later one has called it
DiffAgainstFetchedWitness ==
  /\ isInitialized
  /\ \E c1, c2 \in CycleIds :
       /\ tasks[c1].pc = "done" /\ ~tasks[c1].diffed
       /\ tasks[c2].pc = "done" /\ tasks[c2].diffed

====
